---- MODULE Spec2Model ----
(***************************************************************************)
(* Model of confluence_markdown_extension.py: the two pre-parse line       *)
(* preprocessors and the post-render code-block postprocessor.             *)
(* A string is a sequence of one-character strings, so that the regular    *)
(* expressions, lstrip, isspace and slicing are computed character by      *)
(* character as Python computes them.                                      *)
(***************************************************************************)
EXTENDS Integers, Sequences, FiniteSets, TLC

\* lines, modified_lines: the argument and the result list of a run of a
\*   preprocessor; in_code_block, code_block_indent: the mode and the
\*   indent-width of IndentedCodeBlockPreprocessor.run
\* swapped_lines: the two preprocessors applied in the opposite order
\* text, processed_text: the argument and the value returned by
\*   CodeBlockPostprocessor.run; calls: the invocations of decode_and_wrap,
\*   in order; pc: "start" before that run and "done" after it
VARIABLES lines, modified_lines, in_code_block, code_block_indent, swapped_lines
VARIABLES text, processed_text, calls, pc

preVars == <<lines, modified_lines, in_code_block, code_block_indent, swapped_lines>>
postVars == <<text, processed_text, calls, pc>>
vars == <<lines, modified_lines, in_code_block, code_block_indent, swapped_lines,
          text, processed_text, calls, pc>>

\* ---------------------------------------------------------------- bounds
MaxLines == 3
MaxIndent == 2
MaxLinkLines == 2
MaxLinkFragments == 3
MaxTextFragments == 4
MaxCodeFragments == 5

\* ------------------------------------------------------- generic helpers
Min(a, b) == IF a <= b THEN a ELSE b

RECURSIVE Flatten(_)
Flatten(ss) == IF ss = <<>> THEN <<>> ELSE Head(ss) \o Flatten(Tail(ss))

RECURSIVE SeqsUpTo(_, _)
SeqsUpTo(S, n) ==
  IF n = 0 THEN {<<>>}
  ELSE LET r == SeqsUpTo(S, n - 1) IN r \cup {Append(s, x) : s \in r, x \in S}

\* s[:n] and s[n:] of Python, for n >= 0
Slice(s, n) == SubSeq(s, 1, Min(n, Len(s)))
Drop(s, n) == SubSeq(s, Min(n, Len(s)) + 1, Len(s))

\* The backtick character. The lexer of SANY does not accept a backtick inside a
\* string literal, so the one-character string "~" stands for it; no input
\* of the model uses a tilde for anything else.
BT == "~"
FENCE == <<BT, BT, BT>>

\* t occurs in s starting at position i (1-based)
MatchAt(s, i, t) ==
  /\ i + Len(t) - 1 <= Len(s)
  /\ \A k \in 1..Len(t) : s[i + k - 1] = t[k]

Contains(s, t) == \E i \in 1..(Len(s) + 1) : MatchAt(s, i, t)

\* -------------------------------------------------- whitespace, as the
\* regex class, str.isspace and str.lstrip see it on the characters the inputs use
Whitespace == {" ", "\t", "\n", "\r", "\f"}

RECURSIVE LeadingWs(_)
LeadingWs(line) ==
  IF line # <<>> /\ Head(line) \in Whitespace THEN 1 + LeadingWs(Tail(line)) ELSE 0

\* str.lstrip()
LStrip(line) == Drop(line, LeadingWs(line))

\* str.isspace(): non-empty and all characters whitespace
IsSpaceStr(s) == Len(s) > 0 /\ \A i \in 1..Len(s) : s[i] \in Whitespace

\* re.match of the fence-open pattern: whitespace, then three backticks
MatchFenceOpen(line) ==
  LET k == LeadingWs(line) IN MatchAt(line, k + 1, FENCE)

\* re.match of the fence-close pattern: whitespace, three backticks,
\* then only whitespace up to the end of the line
MatchFenceClose(line) ==
  LET k == LeadingWs(line) IN
    /\ MatchAt(line, k + 1, FENCE)
    /\ \A i \in (k + 4)..Len(line) : line[i] \in Whitespace

\* ---------------------------------------------- SectionLinkPreprocessor
\* re.sub of bracket, paren, one or more hashes by bracket, paren, hash:
\* leftmost matches, the run of hashes taken greedily
RECURSIVE HashRun(_, _)
HashRun(line, i) ==
  IF i <= Len(line) /\ line[i] = "#" THEN 1 + HashRun(line, i + 1) ELSE 0

RECURSIVE SubLinkFrom(_, _)
SubLinkFrom(line, i) ==
  IF i > Len(line) THEN <<>>
  ELSE IF MatchAt(line, i, <<"]", "(", "#">>)
       THEN <<"]", "(", "#">> \o SubLinkFrom(line, i + 2 + HashRun(line, i + 2))
       ELSE <<line[i]>> \o SubLinkFrom(line, i + 1)

\* the same with a pattern that takes one hash only
RECURSIVE SubLinkOneHashFrom(_, _)
SubLinkOneHashFrom(line, i) ==
  IF i > Len(line) THEN <<>>
  ELSE IF MatchAt(line, i, <<"]", "(", "#">>)
       THEN <<"]", "(", "#">> \o SubLinkOneHashFrom(line, i + 3)
       ELSE <<line[i]>> \o SubLinkOneHashFrom(line, i + 1)

SubLinkOneHash(line) == SubLinkOneHashFrom(line, 1)

SubLink(line) == SubLinkFrom(line, 1)

\* SectionLinkPreprocessor.run on a whole document
SectionLinkRun(doc) == [i \in 1..Len(doc) |-> SubLink(doc[i])]

\* ---------------------------------------- IndentedCodeBlockPreprocessor
\* the if/elif chain of the loop body: which branch a line takes
\* (variant: the first test without the mode)
BranchOfAnyMode(in_block, line) ==
  IF MatchFenceOpen(line) THEN "open"
  ELSE IF in_block /\ MatchFenceClose(line) THEN "close"
  ELSE IF in_block THEN "inside"
  ELSE "outside"

BranchOf(in_block, line) ==
  IF ~in_block /\ MatchFenceOpen(line) THEN "open"
  ELSE IF in_block /\ MatchFenceClose(line) THEN "close"
  ELSE IF in_block THEN "inside"
  ELSE "outside"

\* the inside-block branch without the isspace test
DedentInsideNoSpaceTest(line, indent) ==
  IF Len(line) >= indent THEN Drop(line, indent) ELSE line

\* the inside-block branch: what is appended for a content line
DedentInside(line, indent) ==
  IF Len(line) >= indent /\ IsSpaceStr(Slice(line, indent))
  THEN Drop(line, indent)
  ELSE line

\* one iteration of the loop as a function of the state of the loop
LoopBody(in_block, indent, line) ==
  LET b == BranchOf(in_block, line) IN
    IF b = "open"
    THEN [in_code_block |-> TRUE,
          code_block_indent |-> Len(line) - Len(LStrip(line)),
          out |-> LStrip(line)]
    ELSE IF b = "close"
    THEN [in_code_block |-> FALSE, code_block_indent |-> 0, out |-> LStrip(line)]
    ELSE IF b = "inside"
    THEN [in_code_block |-> in_block, code_block_indent |-> indent,
          out |-> DedentInside(line, indent)]
    ELSE [in_code_block |-> in_block, code_block_indent |-> indent, out |-> line]

RECURSIVE IndentedRunFrom(_, _, _, _)
IndentedRunFrom(doc, i, in_block, indent) ==
  IF i > Len(doc) THEN <<>>
  ELSE LET r == LoopBody(in_block, indent, doc[i]) IN
         <<r.out>> \o IndentedRunFrom(doc, i + 1, r.in_code_block, r.code_block_indent)

\* IndentedCodeBlockPreprocessor.run on a whole document
IndentedCodeBlockRun(doc) == IndentedRunFrom(doc, 1, FALSE, 0)

\* ------------------------------------------------------------ the inputs
\* A line given to the dedenter is an indentation of 0..MaxIndent spaces and
\* one of: nothing, text, a bare fence, a fence with an info string, a fence
\* with trailing whitespace.
Spaces(k) == [i \in 1..k |-> " "]

DedentBodies == {<<>>, <<"a">>, FENCE, FENCE \o <<"a">>, FENCE \o <<" ">>}
DedentLines == {Spaces(k) \o b : k \in 0..MaxIndent, b \in DedentBodies}

\* A line given to the link normalizer is up to MaxLinkFragments of: a
\* bracket and a parenthesis, a hash, a letter.
LinkFragments == {<<"]", "(">>, <<"#">>, <<"a">>}
LinkLines == {Flatten(fs) : fs \in SeqsUpTo(LinkFragments, MaxLinkFragments)}

\* A line given to both is an indentation and one of: nothing, a fence, a
\* link with two hashes, a link with one hash after a hash, a fence whose
\* info string holds a link with two hashes.
PipelineBodies ==
  {<<>>, FENCE, <<"]", "(", "#", "#">>, <<"#", "]", "(", "#">>,
   FENCE \o <<"]", "(", "#", "#">>}
PipelineLines == {Spaces(k) \o b : k \in 0..MaxIndent, b \in PipelineBodies}
PipelineDocs == SeqsUpTo(PipelineLines, MaxLines)

\* ------------------------------------------------- the dedent automaton
InitPre ==
  /\ lines = <<>>
  /\ modified_lines = <<>>
  /\ in_code_block = FALSE
  /\ code_block_indent = 0
  /\ swapped_lines = <<>>
  /\ text = <<>> /\ processed_text = <<>> /\ calls = <<>> /\ pc = "start"

FenceOpen(line) ==
  /\ Len(lines) < MaxLines
  /\ BranchOf(in_code_block, line) = "open"
  /\ in_code_block' = TRUE
  /\ code_block_indent' = Len(line) - Len(LStrip(line))
  /\ modified_lines' = Append(modified_lines, LStrip(line))
  /\ lines' = Append(lines, line)
  /\ UNCHANGED <<swapped_lines, postVars>>

FenceClose(line) ==
  /\ Len(lines) < MaxLines
  /\ BranchOf(in_code_block, line) = "close"
  /\ in_code_block' = FALSE
  /\ modified_lines' = Append(modified_lines, LStrip(line))
  /\ code_block_indent' = 0
  /\ lines' = Append(lines, line)
  /\ UNCHANGED <<swapped_lines, postVars>>

InsideLine(line) ==
  /\ Len(lines) < MaxLines
  /\ BranchOf(in_code_block, line) = "inside"
  /\ modified_lines' = Append(modified_lines, DedentInside(line, code_block_indent))
  /\ lines' = Append(lines, line)
  /\ UNCHANGED <<in_code_block, code_block_indent, swapped_lines, postVars>>

OutsideLine(line) ==
  /\ Len(lines) < MaxLines
  /\ BranchOf(in_code_block, line) = "outside"
  /\ modified_lines' = Append(modified_lines, line)
  /\ lines' = Append(lines, line)
  /\ UNCHANGED <<in_code_block, code_block_indent, swapped_lines, postVars>>

NextDedent ==
  \/ \E line \in DedentLines : FenceOpen(line)
  \/ \E line \in DedentLines : FenceClose(line)
  \/ \E line \in DedentLines : InsideLine(line)
  \/ \E line \in DedentLines : OutsideLine(line)

SpecDedent == InitPre /\ [][NextDedent]_vars

\* ------------------------------------------------ the section-link loop
SectionLinkLine(line) ==
  /\ Len(lines) < MaxLinkLines
  /\ modified_lines' = Append(modified_lines, SubLink(line))
  /\ lines' = Append(lines, line)
  /\ UNCHANGED <<in_code_block, code_block_indent, swapped_lines, postVars>>

NextLinks == \E line \in LinkLines : SectionLinkLine(line)

SpecLinks == InitPre /\ [][NextLinks]_vars

\* ------------------------------------- the two pre-parse stages composed
InitPipeline ==
  /\ lines \in PipelineDocs
  /\ modified_lines = <<>>
  /\ swapped_lines = <<>>
  /\ in_code_block = FALSE
  /\ code_block_indent = 0
  /\ text = <<>> /\ processed_text = <<>> /\ calls = <<>> /\ pc = "start"

\* priority 10 runs before priority 0: dedent, then section links;
\* swapped_lines is the result of the opposite order
RunPreprocessors ==
  /\ modified_lines = <<>> /\ lines # <<>>
  /\ modified_lines' = SectionLinkRun(IndentedCodeBlockRun(lines))
  /\ swapped_lines' = IndentedCodeBlockRun(SectionLinkRun(lines))
  /\ UNCHANGED <<lines, in_code_block, code_block_indent, postVars>>

NextPipeline == RunPreprocessors

SpecPipeline == InitPipeline /\ [][NextPipeline]_vars


\* ============================================== CodeBlockPostprocessor
\* the opening of an untagged block, as the second pattern spells it
PRE_CODE ==
  <<"<", "p", "r", "e", ">", "<", "c", "o", "d", "e", ">">>

\* the opening of a tagged block up to the language, first pattern
PRE_CODE_LANG ==
  <<"<", "p", "r", "e", ">", "<", "c", "o", "d", "e", " ", "c", "l", "a",
    "s", "s", "=", "\"", "l", "a", "n", "g", "u", "a", "g", "e", "-">>

\* what follows the language in the first pattern
LANG_END ==
  <<"\"", ">">>

\* the closing of a block, in both patterns
CODE_PRE_END ==
  <<"<", "/", "c", "o", "d", "e", ">", "<", "/", "p", "r", "e", ">">>

\* the macro of the f-string, up to the language
MACRO_HEAD ==
  <<"<", "a", "c", ":", "s", "t", "r", "u", "c", "t", "u", "r", "e", "d",
    "-", "m", "a", "c", "r", "o", " ", "a", "c", ":", "n", "a", "m", "e",
    "=", "\"", "c", "o", "d", "e", "\"", ">", "<", "a", "c", ":", "p", "a",
    "r", "a", "m", "e", "t", "e", "r", " ", "a", "c", ":", "n", "a", "m",
    "e", "=", "\"", "l", "a", "n", "g", "u", "a", "g", "e", "\"", ">">>

\* the macro of the f-string, between the language and the body
MACRO_MID ==
  <<"<", "/", "a", "c", ":", "p", "a", "r", "a", "m", "e", "t", "e", "r",
    ">", "<", "a", "c", ":", "p", "l", "a", "i", "n", "-", "t", "e", "x",
    "t", "-", "b", "o", "d", "y", ">", "<", "!", "[", "C", "D", "A", "T",
    "A", "[">>

\* the macro of the f-string, after the body
MACRO_TAIL ==
  <<"]", "]", ">", "<", "/", "a", "c", ":", "p", "l", "a", "i", "n", "-",
    "t", "e", "x", "t", "-", "b", "o", "d", "y", ">", "<", "/", "a", "c",
    ":", "s", "t", "r", "u", "c", "t", "u", "r", "e", "d", "-", "m", "a",
    "c", "r", "o", ">">>

\* the pattern of the language remap
BASH_PARAM ==
  <<"<", "a", "c", ":", "p", "a", "r", "a", "m", "e", "t", "e", "r", " ",
    "a", "c", ":", "n", "a", "m", "e", "=", "\"", "l", "a", "n", "g", "u",
    "a", "g", "e", "\"", ">", "b", "a", "s", "h", "<", "/", "a", "c", ":",
    "p", "a", "r", "a", "m", "e", "t", "e", "r", ">">>

\* the replacement of the language remap
SHELL_PARAM ==
  <<"<", "a", "c", ":", "p", "a", "r", "a", "m", "e", "t", "e", "r", " ",
    "a", "c", ":", "n", "a", "m", "e", "=", "\"", "l", "a", "n", "g", "u",
    "a", "g", "e", "\"", ">", "s", "h", "e", "l", "l", "<", "/", "a", "c",
    ":", "p", "a", "r", "a", "m", "e", "t", "e", "r", ">">>

\* the default language
NONE ==
  <<"n", "o", "n", "e">>

\* BASH_PARAM as the Markdown renderer escapes it inside a code block
ENC_BASH_PARAM ==
  <<"&", "l", "t", ";", "a", "c", ":", "p", "a", "r", "a", "m", "e", "t",
    "e", "r", " ", "a", "c", ":", "n", "a", "m", "e", "=", "&", "q", "u",
    "o", "t", ";", "l", "a", "n", "g", "u", "a", "g", "e", "&", "q", "u",
    "o", "t", ";", "&", "g", "t", ";", "b", "a", "s", "h", "&", "l", "t",
    ";", "/", "a", "c", ":", "p", "a", "r", "a", "m", "e", "t", "e", "r",
    "&", "g", "t", ";">>

BASH ==
  <<"b", "a", "s", "h">>

PY ==
  <<"p", "y">>

SHELL ==
  <<"s", "h", "e", "l", "l">>

QUOT ==
  <<"&", "q", "u", "o", "t", ";">>

AMP ==
  <<"&", "a", "m", "p", ";">>

LT ==
  <<"&", "l", "t", ";">>

GT ==
  <<"&", "g", "t", ";">>

\* the word characters of the regex class, on the characters the inputs use
WordChars ==
  {"a", "b", "c", "d", "e", "f", "g", "h", "i", "j", "k", "l", "m", "n", "o", "p", "q", "r", "s", "t", "u", "v", "w", "x", "y", "z",
   "A", "B", "C", "D", "E", "F", "G", "H", "I", "J", "K", "L", "M", "N", "O", "P", "Q", "R", "S", "T", "U", "V", "W", "X", "Y", "Z",
   "0", "1", "2", "3", "4", "5", "6", "7", "8", "9", "_"}

\* the length of the run of word characters of s that starts at position i
RECURSIVE WordRun(_, _)
WordRun(s, i) ==
  IF i <= Len(s) /\ s[i] \in WordChars THEN 1 + WordRun(s, i + 1) ELSE 0

\* the first position >= i at which t occurs in s, 0 when there is none
FirstAt(s, i, t) ==
  IF \E j \in i..Len(s) : MatchAt(s, j, t)
  THEN CHOOSE j \in i..Len(s) :
         MatchAt(s, j, t) /\ \A k \in i..(j - 1) : ~MatchAt(s, k, t)
  ELSE 0

\* html.unescape on the entities the inputs use: each of the four named
\* references, with its semicolon, is replaced by its character in one
\* left-to-right scan; the replacement is not scanned again
EntityAt(s, i) ==
  \/ MatchAt(s, i, QUOT) \/ MatchAt(s, i, AMP)
  \/ MatchAt(s, i, LT) \/ MatchAt(s, i, GT)

FirstEntity(s, i) ==
  IF \E j \in i..Len(s) : EntityAt(s, j)
  THEN CHOOSE j \in i..Len(s) : EntityAt(s, j) /\ \A k \in i..(j - 1) : ~EntityAt(s, k)
  ELSE 0

RECURSIVE UnescapeFrom(_, _)
UnescapeFrom(s, i) ==
  LET j == FirstEntity(s, i) IN
    IF j = 0 THEN SubSeq(s, i, Len(s))
    ELSE SubSeq(s, i, j - 1) \o
         (IF MatchAt(s, j, QUOT) THEN <<"\"">> \o UnescapeFrom(s, j + Len(QUOT))
          ELSE IF MatchAt(s, j, AMP) THEN <<"&">> \o UnescapeFrom(s, j + Len(AMP))
          ELSE IF MatchAt(s, j, LT) THEN <<"<">> \o UnescapeFrom(s, j + Len(LT))
          ELSE <<">">> \o UnescapeFrom(s, j + Len(GT)))

Unescape(s) == UnescapeFrom(s, 1)

\* the dedent the specification describes: the least leading-whitespace
\* width of the non-blank lines, removed from every line that is long enough
RECURSIVE SplitLines(_)
SplitLines(s) ==
  LET n == FirstAt(s, 1, <<"\n">>) IN
    IF n = 0 THEN <<s>>
    ELSE <<SubSeq(s, 1, n - 1)>> \o SplitLines(SubSeq(s, n + 1, Len(s)))

RECURSIVE JoinLines(_)
JoinLines(ls) ==
  IF Len(ls) = 1 THEN ls[1] ELSE ls[1] \o <<"\n">> \o JoinLines(Tail(ls))

IsBlank(line) == \A i \in 1..Len(line) : line[i] \in Whitespace

MinIndent(ls) ==
  LET ws == {LeadingWs(ls[i]) : i \in {j \in 1..Len(ls) : ~IsBlank(ls[j])}}
  IN IF ws = {} THEN 0 ELSE CHOOSE w \in ws : \A v \in ws : w <= v

DedentText(s) ==
  LET ls == SplitLines(s)
      w == MinIndent(ls)
  IN IF Len(ls) = 1 THEN s
     ELSE JoinLines([i \in 1..Len(ls) |->
                       IF Len(ls[i]) >= w THEN Drop(ls[i], w) ELSE ls[i]])

\* decode_and_wrap with the dedent of the specification added
decode_and_wrap_dedent(groups) ==
  LET language == IF Len(groups) >= 1 THEN groups[1] ELSE NONE
      code_content == IF Len(groups) >= 2 THEN groups[2] ELSE groups[1]
  IN MACRO_HEAD \o language \o MACRO_MID \o DedentText(Unescape(code_content))
       \o MACRO_TAIL

\* decode_and_wrap(match): groups are the capture groups of the match, so
\* match.lastindex is Len(groups) (every group of both patterns takes part
\* in every match)
decode_and_wrap(groups) ==
  LET language == IF Len(groups) >= 1 THEN groups[1] ELSE NONE
      code_content == IF Len(groups) >= 2 THEN groups[2] ELSE groups[1]
      decoded_content == Unescape(code_content)
  IN MACRO_HEAD \o language \o MACRO_MID \o decoded_content \o MACRO_TAIL

\* A match of the first pattern that starts at position i: the language is
\* the whole run of word characters (the quote that must follow is not a
\* word character), the content runs to the first closing that follows.
\* stop is the position after the match, 0 when there is no match at i.
TaggedMatchAt(s, i) ==
  LET l == i + Len(PRE_CODE_LANG)
      n == WordRun(s, l)
      c == l + n + Len(LANG_END)
      e == FirstAt(s, c, CODE_PRE_END)
  IN IF /\ MatchAt(s, i, PRE_CODE_LANG)
        /\ n >= 1
        /\ MatchAt(s, l + n, LANG_END)
        /\ e > 0
     THEN [stop |-> e + Len(CODE_PRE_END),
           groups |-> <<SubSeq(s, l, l + n - 1), SubSeq(s, c, e - 1)>>]
     ELSE [stop |-> 0, groups |-> <<>>]

\* A match of the second pattern that starts at position i
UntaggedMatchAt(s, i) ==
  LET c == i + Len(PRE_CODE)
      e == FirstAt(s, c, CODE_PRE_END)
  IN IF MatchAt(s, i, PRE_CODE) /\ e > 0
     THEN [stop |-> e + Len(CODE_PRE_END), groups |-> <<SubSeq(s, c, e - 1)>>]
     ELSE [stop |-> 0, groups |-> <<>>]

\* re.sub(pattern, decode_and_wrap, s): leftmost non-overlapping matches,
\* each replaced by what decode_and_wrap returns; calls lists the matches
FirstTagged(s, i) ==
  IF \E j \in i..Len(s) : TaggedMatchAt(s, j).stop > 0
  THEN CHOOSE j \in i..Len(s) :
         /\ TaggedMatchAt(s, j).stop > 0
         /\ \A k \in i..(j - 1) : TaggedMatchAt(s, k).stop = 0
  ELSE 0

RECURSIVE SubTaggedFrom(_, _)
SubTaggedFrom(s, i) ==
  LET j == FirstTagged(s, i) IN
    IF j = 0 THEN [out |-> SubSeq(s, i, Len(s)), calls |-> <<>>]
    ELSE LET m == TaggedMatchAt(s, j)
             r == SubTaggedFrom(s, m.stop)
             w == decode_and_wrap(m.groups)
         IN [out |-> SubSeq(s, i, j - 1) \o w \o r.out,
             calls |-> <<[pass |-> 1, start |-> j, after |-> Len(s) - m.stop + 1,
                          groups |-> m.groups, result |-> w]>> \o r.calls]

FirstUntagged(s, i) ==
  IF \E j \in i..Len(s) : UntaggedMatchAt(s, j).stop > 0
  THEN CHOOSE j \in i..Len(s) :
         /\ UntaggedMatchAt(s, j).stop > 0
         /\ \A k \in i..(j - 1) : UntaggedMatchAt(s, k).stop = 0
  ELSE 0

RECURSIVE SubUntaggedFrom(_, _)
SubUntaggedFrom(s, i) ==
  LET j == FirstUntagged(s, i) IN
    IF j = 0 THEN [out |-> SubSeq(s, i, Len(s)), calls |-> <<>>]
    ELSE LET m == UntaggedMatchAt(s, j)
             r == SubUntaggedFrom(s, m.stop)
             w == decode_and_wrap(m.groups)
         IN [out |-> SubSeq(s, i, j - 1) \o w \o r.out,
             calls |-> <<[pass |-> 2, start |-> j, after |-> Len(s) - m.stop + 1,
                          groups |-> m.groups, result |-> w]>> \o r.calls]

\* re.sub of the bash parameter by the shell parameter, over the whole text
RECURSIVE RemapFrom(_, _)
RemapFrom(s, i) ==
  LET j == FirstAt(s, i, BASH_PARAM) IN
    IF j = 0 THEN SubSeq(s, i, Len(s))
    ELSE SubSeq(s, i, j - 1) \o SHELL_PARAM \o RemapFrom(s, j + Len(BASH_PARAM))

\* (variant: no remap at all)
RemapNothing(s) == s

Remap(s) == RemapFrom(s, 1)

\* (variant: the remap without the test that the text changed)
RemapAlways(processed, original) == Remap(processed)

\* the last statement of run: the remap, when the passes changed the text
RemapIfChanged(processed, original) ==
  IF processed # original THEN Remap(processed) ELSE processed

\* ---------------------------------------------- the rendered documents
TaggedOpen(lang) == PRE_CODE_LANG \o lang \o LANG_END

MacroFragments ==
  {PRE_CODE, TaggedOpen(PY), TaggedOpen(BASH), CODE_PRE_END, BASH,
   BASH_PARAM, ENC_BASH_PARAM}

CodeLineFragments ==
  {PRE_CODE, TaggedOpen(PY), CODE_PRE_END, <<" ", "x">>, <<" ">>, <<"\n">>}

\* A rendered document is up to n fragments, one after the other.
TextsOver(F, n) == {Flatten(fs) : fs \in SeqsUpTo(F, n)}

InitPostOver(T) ==
  /\ text \in T
  /\ processed_text = <<>>
  /\ calls = <<>>
  /\ pc = "start"
  /\ lines = <<>> /\ modified_lines = <<>> /\ swapped_lines = <<>>
  /\ in_code_block = FALSE /\ code_block_indent = 0

InitPost == InitPostOver(TextsOver(MacroFragments, MaxTextFragments))
InitPostLines == InitPostOver(TextsOver(CodeLineFragments, MaxCodeFragments))

\* CodeBlockPostprocessor.run(text)
Run ==
  /\ pc = "start"
  /\ LET tagged == SubTaggedFrom(text, 1)
         untagged == SubUntaggedFrom(tagged.out, 1)
     IN /\ processed_text' = RemapIfChanged(untagged.out, text)
        /\ calls' = tagged.calls \o untagged.calls
  /\ pc' = "done"
  /\ UNCHANGED <<text, preVars>>

NextPost == Run

SpecPost == InitPost /\ [][NextPost]_vars
SpecPostLines == InitPostLines /\ [][NextPost]_vars

\* =================================================== properties, pre-parse
Last(s) == s[Len(s)]

\* The fence automaton as the specification describes it, from the input
\* lines alone: whether line i is met inside a block, whether it opens or
\* closes one, and the fence-open line of the block it is in.
RECURSIVE InsideBefore(_)
InsideBefore(i) ==
  IF i = 1 THEN FALSE
  ELSE IF InsideBefore(i - 1) THEN ~MatchFenceClose(lines[i - 1])
       ELSE MatchFenceOpen(lines[i - 1])

IsOpener(i) == ~InsideBefore(i) /\ MatchFenceOpen(lines[i])
IsCloser(i) == InsideBefore(i) /\ MatchFenceClose(lines[i])
OpenerBefore(i) == CHOOSE j \in 1..(i - 1) :
  IsOpener(j) /\ \A k \in (j + 1)..(i - 1) : ~IsOpener(k)
OpenIndent(i) == LeadingWs(lines[OpenerBefore(i)])

WsPrefix(line, w) == Len(line) >= w /\ \A k \in 1..w : line[k] \in Whitespace

\* C4: fence lines lose all leading whitespace; a line inside a block loses
\* exactly its first w characters (w = leading whitespace of the most recent
\* fence-open line) when it has that many and they are all whitespace, and
\* is unchanged otherwise; lines outside a block are unchanged.
C4_DedentByOpeningIndent ==
  /\ Len(modified_lines) = Len(lines)
  /\ \A i \in 1..Len(lines) :
       LET line == lines[i]
           out == modified_lines[i]
       IN IF IsOpener(i) \/ IsCloser(i)
          THEN /\ LeadingWs(out) = 0
               /\ out = SubSeq(line, LeadingWs(line) + 1, Len(line))
          ELSE IF InsideBefore(i)
          THEN IF WsPrefix(line, OpenIndent(i))
               THEN out = SubSeq(line, OpenIndent(i) + 1, Len(line))
               ELSE out = line
          ELSE out = line

\* a block indented by two that holds a line not indented enough, left as
\* it is, and is closed by an indented fence
C4_Witness ==
  /\ Len(lines) = 3 /\ ~in_code_block
  /\ IsOpener(1) /\ OpenIndent(2) = 2
  /\ LeadingWs(lines[2]) = 1 /\ Len(lines[2]) = 2
  /\ modified_lines[2] = lines[2]
  /\ IsCloser(3) /\ LeadingWs(lines[3]) = 1 /\ modified_lines[3] # lines[3]

\* a block indented by one holding a line indented by two, which keeps one
C4_WitnessRelative ==
  /\ Len(lines) = 2 /\ in_code_block
  /\ IsOpener(1) /\ OpenIndent(2) = 1
  /\ LeadingWs(lines[2]) = 2 /\ Len(lines[2]) = 3
  /\ modified_lines[2] = SubSeq(lines[2], 2, 3)

\* C10 as stated: a line that begins, after whitespace, with three backticks
\* and is met inside a block leaves the mode and the indent-width alone and
\* is emitted dedented by the indent-width of the block.
C10_FenceOpenInsideKeepsMode ==
  [][(in_code_block /\ lines' # lines /\ MatchFenceOpen(Last(lines')))
       => /\ in_code_block'
          /\ code_block_indent' = code_block_indent
          /\ Last(modified_lines') = DedentInside(Last(lines'), code_block_indent)]_vars

\* C10 amended: the same for a line that does not also match fence-close
\* (something other than whitespace follows the three backticks).
C10_FenceOpenNotCloseInsideKeepsMode ==
  [][(/\ in_code_block /\ lines' # lines
      /\ MatchFenceOpen(Last(lines'))
      /\ ~MatchFenceClose(Last(lines')))
       => /\ in_code_block'
          /\ code_block_indent' = code_block_indent
          /\ Last(modified_lines') =
               (IF WsPrefix(Last(lines'), code_block_indent)
                THEN SubSeq(Last(lines'), code_block_indent + 1, Len(Last(lines')))
                ELSE Last(lines'))]_vars

\* an indented block holding an indented line of three backticks and text
C10_Witness ==
  /\ in_code_block /\ code_block_indent = 1
  /\ Len(lines) >= 2
  /\ InsideBefore(Len(lines))
  /\ MatchFenceOpen(Last(lines)) /\ ~MatchFenceClose(Last(lines))
  /\ Last(modified_lines) # Last(lines)
  /\ MatchFenceOpen(Last(modified_lines))

\* The hashes the substitution removes: every hash but the first of a run
\* of hashes that directly follows a bracket and a parenthesis.
RemovedHash(line, p) ==
  /\ line[p] = "#"
  /\ \E s \in 1..(p - 3) :
       /\ line[s] = "]" /\ line[s + 1] = "("
       /\ \A q \in (s + 2)..p : line[q] = "#"

RECURSIVE KeptFrom(_, _)
KeptFrom(line, p) ==
  IF p > Len(line) THEN <<>>
  ELSE (IF RemovedHash(line, p) THEN <<>> ELSE <<line[p]>>) \o KeptFrom(line, p + 1)

\* C7: every output line is the input line at the same position without the
\* surplus hashes, holds no bracket-paren followed by two hashes, and is the
\* input line itself when the input line has no bracket-paren-hash.
C7_SectionLinksSingleHash ==
  /\ Len(modified_lines) = Len(lines)
  /\ \A i \in 1..Len(lines) :
       /\ modified_lines[i] = KeptFrom(lines[i], 1)
       /\ ~Contains(modified_lines[i], <<"]", "(", "#", "#">>)
       /\ (~Contains(lines[i], <<"]", "(", "#">>) => modified_lines[i] = lines[i])

\* a line with a double hash was rewritten next to a line left as it was
C7_Witness ==
  /\ Len(lines) >= 2
  /\ \E i \in 1..Len(lines) :
       /\ Contains(lines[i], <<"]", "(", "#", "#">>)
       /\ Len(modified_lines[i]) = Len(lines[i]) - 1
  /\ \E i \in 1..Len(lines) :
       /\ Contains(lines[i], <<"#", "]", "(">>)
       /\ modified_lines[i] = lines[i]

\* C9: dedent-then-links and links-then-dedent give the same lines.
C9_PreprocessorsCommute ==
  modified_lines # <<>> => modified_lines = swapped_lines

\* a line inside an indented block that both stages rewrite
C9_Witness ==
  /\ modified_lines # <<>>
  /\ \E i \in 1..Len(lines) :
       /\ IndentedCodeBlockRun(lines)[i] # lines[i]
       /\ SectionLinkRun(lines)[i] # lines[i]
       /\ modified_lines[i] # IndentedCodeBlockRun(lines)[i]
       /\ modified_lines[i] # SectionLinkRun(lines)[i]

\* ================================================ properties, post-render
MacroOf(language, body) == MACRO_HEAD \o language \o MACRO_MID \o body \o MACRO_TAIL

\* the content group of a call, and the body of the macro it returned
ContentOf(c) == c.groups[Len(c.groups)]
BodyOf(c) ==
  SubSeq(c.result, Len(MACRO_HEAD) + Len(c.groups[1]) + Len(MACRO_MID) + 1,
         Len(c.result) - Len(MACRO_TAIL))
MultiLine(s) == Contains(s, <<"\n">>)

\* C1 as stated: a block without a class attribute yields the macro with
\* the language none and the decoded content as body.
C1_UntaggedLanguageNone ==
  pc = "done" =>
    \A k \in 1..Len(calls) :
      calls[k].pass = 2 =>
        calls[k].result = MacroOf(NONE, Unescape(calls[k].groups[1]))

\* C2 as stated: a tagged block with single-line content and a language
\* other than bash is, in the final output, the macro with that language and
\* the content decoded once.
C2_TaggedMacroInOutput ==
  pc = "done" =>
    \A k \in 1..Len(calls) :
      (/\ calls[k].pass = 1
       /\ calls[k].groups[1] # BASH
       /\ ~MultiLine(calls[k].groups[2]))
        => Contains(processed_text,
                    MacroOf(calls[k].groups[1], Unescape(calls[k].groups[2])))

\* C3 as stated: the body of a block whose decoded content has several
\* lines is that content with the least indentation of its non-blank lines
\* removed from every line that is long enough.
C3_MultiLineBodyDedented ==
  pc = "done" =>
    \A k \in 1..Len(calls) :
      MultiLine(Unescape(ContentOf(calls[k])))
        => BodyOf(calls[k]) = DedentText(Unescape(ContentOf(calls[k])))

\* C3 amended: the body of every macro is the decoded content as it is, of
\* one line or several; no leading whitespace is removed from any line.
C3_BodyKeepsIndentation ==
  pc = "done" =>
    \A k \in 1..Len(calls) :
      LET decoded == Unescape(ContentOf(calls[k]))
          body == BodyOf(calls[k])
      IN /\ body = decoded
         /\ MinIndent(SplitLines(body)) = MinIndent(SplitLines(decoded))
         /\ calls[k].result = MACRO_HEAD \o calls[k].groups[1] \o MACRO_MID
                                \o body \o MACRO_TAIL

\* a tagged block of two lines, both indented, whose body kept the indent
C3_Witness ==
  /\ pc = "done"
  /\ \E k \in 1..Len(calls) :
       /\ calls[k].pass = 1
       /\ Len(SplitLines(ContentOf(calls[k]))) = 2
       /\ MinIndent(SplitLines(ContentOf(calls[k]))) = 1
       /\ MinIndent(SplitLines(BodyOf(calls[k]))) = 1
       /\ Contains(processed_text, calls[k].result)

\* C5: a block tagged language-bash gives a macro with the language shell
\* in the final output, and no macro of the output of an invocation that
\* emitted one has the language bash.
C5_BashEmittedAsShell ==
  pc = "done" =>
    /\ calls # <<>> => ~Contains(processed_text, MACRO_HEAD \o BASH \o MACRO_MID)
    /\ \A k \in 1..Len(calls) :
         (calls[k].pass = 1 /\ calls[k].groups[1] = BASH)
           => Contains(processed_text, MACRO_HEAD \o SHELL \o MACRO_MID)

\* a bash-tagged block with content was translated
C5_Witness ==
  /\ pc = "done"
  /\ \E k \in 1..Len(calls) :
       /\ calls[k].pass = 1 /\ calls[k].groups[1] = BASH
       /\ calls[k].groups[2] = BASH
       /\ Contains(calls[k].result, MACRO_HEAD \o BASH \o MACRO_MID)
  /\ Contains(processed_text, MACRO_HEAD \o SHELL \o MACRO_MID \o BASH \o MACRO_TAIL)

\* C6: when neither pass finds a match the output is the input, and a bash
\* parameter that was in the input is still there.
C6_NoMatchPassThrough ==
  (pc = "done" /\ calls = <<>>) => processed_text = text

\* no match although the text holds an opening and a bash parameter
C6_Witness ==
  /\ pc = "done" /\ calls = <<>>
  /\ Contains(text, BASH_PARAM)
  /\ Contains(text, PRE_CODE)
  /\ Contains(processed_text, BASH_PARAM)

\* the least of a non-empty set of numbers
Least(S) == CHOOSE x \in S : \A y \in S : x <= y

\* C8 as stated: when a block was transformed, what the input holds before
\* the first matched block and after the last one is in the output as it
\* was, a bash parameter included.
C8_RemapLeavesInputAlone ==
  (pc = "done" /\ calls # <<>>) =>
    LET before == Least({calls[k].start : k \in 1..Len(calls)}) - 1
        after == Least({calls[k].after : k \in 1..Len(calls)})
    IN /\ SubSeq(processed_text, 1, before) = SubSeq(text, 1, before)
       /\ SubSeq(processed_text, Len(processed_text) - after + 1, Len(processed_text))
            = SubSeq(text, Len(text) - after + 1, Len(text))

====
